---- MODULE Spec2Model ----
(***************************************************************************)
(* A model of leaflet-wms-crop.js: boundary normalisation, the geometry    *)
(* helpers, the clipped WMS tile layer and the clipped WMS image overlay.   *)
(*                                                                         *)
(* Values.  A JavaScript array element is a record [t, lat, lng]: t says   *)
(* what the element is ("pair": an array of two numbers, "num1": an array  *)
(* whose first entry is a number and whose second is not, "arr": an array  *)
(* whose first entry is not a number, "str": not an array).  A ring is a   *)
(* sequence of such elements.  Coordinates are whole degrees.               *)
(***************************************************************************)
EXTENDS Integers, Sequences, FiniteSets, TLC

VARIABLES
    \* ---- construction (the two factory functions) ----
    arg,        \* the boundary argument of the factory call
    phase,      \* "ready": call not made yet, "returned": the call has ended
    called,     \* "none", or the factory that was called: "tile", "overlay"
    handle,     \* "none", or the class of the handle the factory returned
    thrown,     \* "none", or the error the factory call threw
    stored,     \* this._boundary of the constructed object (<<>> when none)
    result,     \* "none", or the value that the geometry helper called returned
    \* ---- a constructed layer and its callers ----
    kind,       \* the class of the layer: "tile" or "overlay"
    heap,       \* the arrays that exist: heap[a] is the ring at address a
    thisBoundary, \* this._boundary: the address of an array
    invertClip, \* this._invertClip
    map,        \* TRUE while the layer is on a map (this._map is set)
    callerRef,  \* the array the caller last passed as boundary (0: none)
    gotRef,     \* the array the last getBoundary() returned (0: none)
    tiles,      \* per tile address: the state of its request and its canvas
    view,       \* the map's current view (bounds and size of the container)
    fetches,    \* the viewport images being fetched
    issued,     \* the viewport fetches issued so far
    published,  \* the overlay's image and bounds, as set by setUrl / setBounds
    calls,      \* the setBoundary calls so far
    edits,      \* the in-place changes callers made to arrays so far
    \* ---- what the last calls did ----
    lastSet,    \* the last setBoundary call: its argument, the ring stored
                \* when it called redraw() / _update(), how often it called
                \* them, and what it returned ("this") or that it threw
    lastEdit,   \* whose array was last changed in place: "argument" (the
                \* array passed as boundary), "returned" (by getBoundary)
    completion  \* the last completion callback of a viewport fetch: the
                \* fetch, and whether the callback published the image
                \* ("published"), threw ("threw") or logged ("error")

normVars == <<arg, phase, called, handle, thrown, stored, result>>

layerVars == <<kind, heap, thisBoundary, invertClip, map, callerRef, gotRef, tiles,
               view, fetches, issued, published, calls, edits, lastSet, lastEdit,
               completion>>

vars == <<normVars, layerVars>>

----------------------------------------------------------------------------
(* Bounds of the model *)

\* grid coordinates are 0, 10, ..., 10*MaxGrid degrees
MaxGrid == 2

\* setBoundary calls in one behaviour
MaxCalls == 2

\* in-place changes of arrays by callers in one behaviour
MaxEdits == 1

\* viewport fetches issued in one behaviour
MaxFetches == 2

\* setBoundary calls and in-place changes of arrays together, in one
\* behaviour
MaxOps == 2

\* polygons given to pointInPolygon have their vertices at 12 * k, k in
\* 0 .. MaxPip, in both directions
MaxPip == 2

----------------------------------------------------------------------------
(* JavaScript values *)

Pair(lat, lng) == [t |-> "pair", lat |-> lat, lng |-> lng]

\* Array.isArray(e)
IsArray(e) == e.t # "str"

\* typeof e[0] === 'number'
FirstIsNumber(e) == e.t \in {"pair", "num1"}

\* elements that are no [lat, lng] pair of numbers
Junk == {[t |-> k, lat |-> 0, lng |-> 0] : k \in {"num1", "arr", "str"}}

GridVals == {10 * k : k \in 0..MaxGrid}

\* the axis-aligned quadrilaterals of the grid: south < north, west < east
Quads == {q \in [s : GridVals, w : GridVals, n : GridVals, e : GridVals] :
            q.s < q.n /\ q.w < q.e}

\* the four corners of q as [lat, lng] pairs, walked around the rectangle
Corners(q) == <<Pair(q.s, q.w), Pair(q.s, q.e), Pair(q.n, q.e), Pair(q.n, q.w)>>

Reverse(s) == [i \in 1..Len(s) |-> s[Len(s) + 1 - i]]

Rotate(s, k) == [i \in 1..Len(s) |-> s[((i - 1 + k) % Len(s)) + 1]]

\* the eight ways to walk the rectangle: a start corner and a direction
Walks(q) == {Rotate(Corners(q), k) : k \in 0..3}
              \cup {Rotate(Reverse(Corners(q)), k) : k \in 0..3}

Close(r) == Append(r, r[1])

\* GeoJSON position [lng, lat] of a [lat, lng] pair
Position(p) == <<p.lng, p.lat>>

LinearRing(r) == [i \in 1..Len(r) |-> Position(r[i])]

----------------------------------------------------------------------------
(* Boundary arguments: the values a caller can pass as `boundary` *)

\* HasProp(b, "coordinates"): b.coordinates is present (and so truthy: an
\* array, even an empty one, is truthy)
HasProp(b, f) == f \in DOMAIN b

JsArray(elems) == [kind |-> "array", elems |-> elems]

\* L.latLngBounds(southWest, northEast) of the rectangle q
LatLngBounds(q) ==
    [kind |-> "bounds",
     sw |-> [lat |-> q.s, lng |-> q.w],
     ne |-> [lat |-> q.n, lng |-> q.e]]

\* L.polygon(latlngs): Leaflet keeps the rings nested and drops a closing
\* point equal to the first one, so getLatLngs()[0] is an unclosed ring
LPolygon(walk) ==
    [kind |-> "polygon",
     latlngs |-> << [i \in 1..Len(walk) |-> [lat |-> walk[i].lat, lng |-> walk[i].lng]] >>]

GeoPolygon(rings) ==
    [kind |-> "object", type |-> "Polygon", coordinates |-> rings]

GeoMultiPolygon(polys) ==
    [kind |-> "object", type |-> "MultiPolygon", coordinates |-> polys]

GeoFeature(g) ==
    [kind |-> "object", type |-> "Feature", geometry |-> g]

GeoFeatureCollection(fs) ==
    [kind |-> "object", type |-> "FeatureCollection", features |-> fs]

\* a quadrilateral that is none of the grid's, for second rings and polygons
FarQuad == [s |-> -40, w |-> -70, n |-> -30, e |-> -50]

FarRing == LinearRing(Close(Corners(FarQuad)))

\* a quadrilateral overlapping the grid's
NearQuad == [s |-> 5, w |-> 5, n |-> 15, e |-> 25]

NearRing == LinearRing(Close(Corners(NearQuad)))

\* arrays of [lat, lng] pairs walking a grid rectangle, closed or not
RingArrays ==
    UNION {{JsArray(w), JsArray(Close(w))} : w \in UNION {Walks(q) : q \in Quads}}

\* arrays that are no ring: empty, too short, or holding a non-pair
OddArrays ==
    {JsArray(<<>>), JsArray(<<Pair(10, 20)>>),
     JsArray(<<Pair(10, 20), Pair(20, 20)>>)}
    \cup {JsArray(<<j>>) : j \in Junk}
    \cup {JsArray(<<Pair(10, 20), j, Pair(20, 10)>>) : j \in Junk}
    \cup {JsArray(<<j, Pair(10, 20), Pair(20, 10)>>) : j \in Junk}

BoundsArgs == {LatLngBounds(q) : q \in Quads}

PolygonArgs == {LPolygon(w) : w \in UNION {Walks(q) : q \in Quads}}

\* GeoJSON Polygons: the outer ring alone, or followed by a second ring
GeoPolygonArgs ==
    UNION {{GeoPolygon(<<LinearRing(Close(w))>>),
            GeoPolygon(<<LinearRing(Close(w)), FarRing>>)} :
           w \in UNION {Walks(q) : q \in Quads}}

\* GeoJSON Polygon / MultiPolygon with an empty coordinates array
EmptyGeoArgs == {GeoPolygon(<<>>), GeoMultiPolygon(<<>>)}

\* GeoJSON MultiPolygons: one polygon, or followed by later polygons
GeoMultiPolygonArgs ==
    UNION {{GeoMultiPolygon(<< <<LinearRing(Close(w))>> >>),
            GeoMultiPolygon(<< <<LinearRing(Close(w))>>, <<FarRing>> >>),
            GeoMultiPolygon(<< <<LinearRing(Close(w)), FarRing>>,
                               <<NearRing>>, <<FarRing>> >>)} :
           w \in UNION {Walks(q) : q \in Quads}}

FeaturePolygonArgs == {GeoFeature(g) : g \in GeoPolygonArgs}

FeatureMultiPolygonArgs == {GeoFeature(g) : g \in GeoMultiPolygonArgs}

\* a Feature whose geometry is a Point (no supported geometry)
FeaturePointArgs ==
    {GeoFeature([kind |-> "object", type |-> "Point", coordinates |-> <<10, 20>>])}

\* a FeatureCollection of one or two Features
FeatureCollectionArgs ==
    {GeoFeatureCollection(<<GeoFeature(GeoPolygon(<<LinearRing(Close(Corners(q)))>>))>>) :
        q \in Quads}
    \cup {GeoFeatureCollection(
             <<GeoFeature(GeoPolygon(<<LinearRing(Close(Corners(q)))>>)),
               GeoFeature(GeoPolygon(<<FarRing>>))>>) : q \in Quads}

\* a bare object, an object with an unknown type, a Polygon without
\* coordinates, a Feature without geometry, null
OtherArgs ==
    {[kind |-> "object"], [kind |-> "object", type |-> "Circle"],
     [kind |-> "object", type |-> "Polygon"],
     [kind |-> "object", type |-> "Feature"], [kind |-> "null"]}

\* arg \in Args, written so that values of different shapes are never put
\* into one set
IsArg(a) ==
    \/ a \in RingArrays
    \/ a \in OddArrays
    \/ a \in BoundsArgs
    \/ a \in PolygonArgs
    \/ a \in GeoPolygonArgs
    \/ a \in EmptyGeoArgs
    \/ a \in GeoMultiPolygonArgs
    \/ a \in FeaturePolygonArgs
    \/ a \in FeatureMultiPolygonArgs
    \/ a \in FeaturePointArgs
    \/ a \in FeatureCollectionArgs
    \/ a \in OtherArgs

----------------------------------------------------------------------------
(* normalizeBoundary *)

\* the result of a call: a returned ring (same: the argument array itself
\* was returned, not a new array) or a thrown error
Return(ring, same) == [err |-> "none", ring |-> ring, same |-> same]

Throw(e) == [err |-> e, ring |-> <<>>, same |-> FALSE]

\* boundary && boundary.type === t
TypeIs(b, t) == b.kind # "null" /\ HasProp(b, "type") /\ b.type = t

\* mutant of SwapAll: the positions are copied without the swap
SwapAllKeepsOrder(ring) == [i \in 1..Len(ring) |-> Pair(ring[i][1], ring[i][2])]

\* coordinates.map(function(coord) { return [coord[1], coord[0]]; }):
\* coord[0] is the longitude, coord[1] the latitude
SwapAll(ring) == [i \in 1..Len(ring) |-> Pair(ring[i][2], ring[i][1])]

\* mutant of RectangleRing: the third corner repeats the second
RectangleRingLostCorner(sw, ne) ==
    <<Pair(sw.lat, sw.lng),
      Pair(ne.lat, sw.lng),
      Pair(ne.lat, sw.lng),
      Pair(sw.lat, ne.lng),
      Pair(sw.lat, sw.lng)>>

\* the rectangle ring built from the two corners of an L.LatLngBounds
RectangleRing(sw, ne) ==
    <<Pair(sw.lat, sw.lng),
      Pair(ne.lat, sw.lng),
      Pair(ne.lat, ne.lng),
      Pair(sw.lat, ne.lng),
      Pair(sw.lat, sw.lng)>>

\* boundary.getLatLngs()[0].map(function(ll) { return [ll.lat, ll.lng]; })
LatLngsToPairs(lls) == [i \in 1..Len(lls) |-> Pair(lls[i].lat, lls[i].lng)]

\* boundary.coordinates[0][0] of a MultiPolygon
FirstPolygonRing(coordinates) == coordinates[1][1]

RECURSIVE normalizeBoundary(_)
normalizeBoundary(boundary) ==
    IF /\ boundary.kind = "array"
       /\ Len(boundary.elems) > 0
       /\ IsArray(boundary.elems[1])
       /\ FirstIsNumber(boundary.elems[1])
    THEN Return(boundary.elems, TRUE)
    ELSE IF boundary.kind = "bounds"
    THEN Return(RectangleRing(boundary.sw, boundary.ne), FALSE)
    ELSE IF boundary.kind = "polygon"
    THEN Return(LatLngsToPairs(boundary.latlngs[1]), FALSE)
    ELSE IF TypeIs(boundary, "Polygon") /\ HasProp(boundary, "coordinates")
    THEN IF Len(boundary.coordinates) = 0
         THEN Throw("TypeError")
         ELSE Return(SwapAll(boundary.coordinates[1]), FALSE)
    ELSE IF TypeIs(boundary, "MultiPolygon") /\ HasProp(boundary, "coordinates")
    THEN IF Len(boundary.coordinates) = 0
         THEN Throw("TypeError")
         ELSE IF Len(boundary.coordinates[1]) = 0
         THEN Throw("TypeError")
         ELSE Return(SwapAll(FirstPolygonRing(boundary.coordinates)), FALSE)
    ELSE IF TypeIs(boundary, "Feature") /\ HasProp(boundary, "geometry")
    THEN normalizeBoundary(boundary.geometry)
    ELSE Throw("UnsupportedBoundaryFormat")

----------------------------------------------------------------------------
(* Geometry helpers *)

\* one step of the ray-casting loop: does the edge from (xj, yj) to
\* (xi, yi) cross the ray from (x, y) towards larger x?  The code compares
\* x < (xj - xi) * (y - yi) / (yj - yi) + xi; here both sides are
\* multiplied by yj - yi, which the first conjunct makes non-zero, so the
\* comparison is exact on integers.
EdgeCrosses(xi, yi, xj, yj, x, y) ==
    /\ (yi > y) # (yj > y)
    /\ LET d == yj - yi
           n == (xj - xi) * (y - yi)
       IN  IF d > 0 THEN (x - xi) * d < n ELSE (x - xi) * d > n

\* mutant of pointInPolygon: the edge from the last vertex back to the
\* first is left out
pointInPolygonNoWrap(point, polygon) ==
    LET n == Len(polygon)
        crossing == {i \in 2..n :
                        EdgeCrosses(polygon[i].x, polygon[i].y,
                                    polygon[i - 1].x, polygon[i - 1].y,
                                    point.x, point.y)}
    IN  Cardinality(crossing) % 2 = 1

\* pointInPolygon(point, polygon): `inside` is toggled once per crossing
\* edge (i, j), j running one behind i and starting at the last vertex
pointInPolygon(point, polygon) ==
    LET n == Len(polygon)
        crossing == {i \in 1..n :
                        LET j == IF i = 1 THEN n ELSE i - 1
                        IN  EdgeCrosses(polygon[i].x, polygon[i].y,
                                        polygon[j].x, polygon[j].y,
                                        point.x, point.y)}
    IN  Cardinality(crossing) % 2 = 1

\* _pointInBoundary(latlng), for the ring in this._boundary
pointInBoundary(latlng, ring) ==
    pointInPolygon([x |-> latlng.lng, y |-> latlng.lat],
                   [i \in 1..Len(ring) |-> [x |-> ring[i].lng, y |-> ring[i].lat]])

----------------------------------------------------------------------------
(* Numbers: the arithmetic of the comparison in pointInPolygon *)

\* A Number is a binary floating-point value: every result of + - * / is
\* rounded to the nearest value with Precision significant bits, ties to
\* the even one (53 bits in the language, Precision bits here).  A Number
\* is written as a whole count of units of 1 / Scale; the values in play
\* are all whole counts of that unit.
Precision == 7

Scale == 2^(Precision + 2)

\* the least e >= 0 with n / d < 2^(Precision + e), for n >= 0 and d > 0
RECURSIVE Shift(_, _, _)
Shift(n, d, e) ==
    IF n < 2^(Precision + e) * d THEN e ELSE Shift(n, d, e + 1)

\* the whole number nearest to n / d, the even one of two equally near
Nearest(n, d) ==
    LET q == n \div d
        r == n % d
    IN  IF 2 * r > d \/ (2 * r = d /\ q % 2 = 1) THEN q + 1 ELSE q

\* the Number nearest to n / d units, for d > 0
Round(n, d) ==
    LET a == IF n < 0 THEN -n ELSE n
        e == Shift(a, d, 0)
        m == Nearest(a, d * 2^e) * 2^e
    IN  IF n < 0 THEN -m ELSE m

NumSub(a, b) == Round(a - b, 1)

NumAdd(a, b) == Round(a + b, 1)

NumMul(a, b) == Round(a * b, Scale)

NumDiv(a, b) == IF b > 0 THEN Round(a * Scale, b) ELSE Round(-(a * Scale), -b)

\* mutant of the edge test: the crossing is measured from the other end
\* of the edge, + xj
NumEdgeCrossesFromOtherEnd(xi, yi, xj, yj, x, y) ==
    /\ (yi > y) # (yj > y)
    /\ x < NumAdd(NumDiv(NumMul(NumSub(xj, xi), NumSub(y, yi)), NumSub(yj, yi)), xj)

\* the test of one edge as the code computes it, operation by operation:
\* ((yi > y) !== (yj > y)) && (x < (xj - xi) * (y - yi) / (yj - yi) + xi)
NumEdgeCrosses(xi, yi, xj, yj, x, y) ==
    /\ (yi > y) # (yj > y)
    /\ x < NumAdd(NumDiv(NumMul(NumSub(xj, xi), NumSub(y, yi)), NumSub(yj, yi)), xi)

\* mutant of pointInPolygon on Numbers: the edge from the last vertex back
\* to the first is left out
pointInPolygonNumNoWrap(point, polygon) ==
    LET n == Len(polygon)
        crossing == {i \in 2..n :
                        NumEdgeCrosses(polygon[i].x, polygon[i].y,
                                       polygon[i - 1].x, polygon[i - 1].y,
                                       point.x, point.y)}
    IN  Cardinality(crossing) % 2 = 1

\* pointInPolygon(point, polygon) on Numbers.  On the whole-number
\* coordinates of the other specifications no rounding step changes the
\* outcome of a comparison, and EdgeCrosses gives the same answers.
pointInPolygonNum(point, polygon) ==
    LET n == Len(polygon)
        crossing == {i \in 1..n :
                        LET j == IF i = 1 THEN n ELSE i - 1
                        IN  NumEdgeCrosses(polygon[i].x, polygon[i].y,
                                           polygon[j].x, polygon[j].y,
                                           point.x, point.y)}
    IN  Cardinality(crossing) % 2 = 1

\* _pointInBoundary(latlng) on Numbers
pointInBoundaryNum(latlng, ring) ==
    pointInPolygonNum([x |-> latlng.lng, y |-> latlng.lat],
                      [i \in 1..Len(ring) |-> [x |-> ring[i].lng, y |-> ring[i].lat]])

----------------------------------------------------------------------------
(* Tiles, projection and the canvas *)

\* Math.atan(Math.sinh(Math.PI * (1 - 2 * y / 2^z))) * 180 / Math.PI, the
\* latitude of the northern edge of tile row y at zoom z, to the nearest
\* degree: MercatorLat[z + 1][y + 1]
MercatorLat ==
    << <<85, -85>>,
       <<85, 0, -85>>,
       <<85, 67, 0, -67, -85>>,
       <<85, 79, 67, 41, 0, -41, -67, -79, -85>> >>

Pow2(z) == IF z = 0 THEN 1 ELSE IF z = 1 THEN 2 ELSE IF z = 2 THEN 4 ELSE 8

\* L.latLngBounds([south, west], [north, east])
Box(south, west, north, east) == [s |-> south, w |-> west, n |-> north, e |-> east]

\* _tileCoordsToBounds(coords); projectToTilePixels computes the same four
\* edges.  360 / 2^z is a whole number of degrees for z <= 3.
tileCoordsToBounds(coords) ==
    LET n == Pow2(coords.z)
        lonMin == (coords.x * 360) \div n - 180
        lonMax == ((coords.x + 1) * 360) \div n - 180
        latMin == MercatorLat[coords.z + 1][coords.y + 2]
        latMax == MercatorLat[coords.z + 1][coords.y + 1]
    IN  Box(latMin, lonMin, latMax, lonMax)

\* Pixel coordinates are kept as exact fractions.  A projected point
\* [x, y] of a box (a tile or a viewport) stands for the pixel position
\* (x / (2 * (box.e - box.w)), y / (2 * (box.n - box.s))): the code's
\* quotient multiplied by the common denominator, and by 2 so that the
\* centre of a pixel is a whole number too.
ProjectInto(box, size, latlng) ==
    [x |-> 2 * (latlng.lng - box.w) * size.x,
     y |-> 2 * (box.n - latlng.lat) * size.y]

\* tile size in pixels (square tiles)
TileSize == 4

getTileSize == [x |-> TileSize, y |-> TileSize]

\* projectToTilePixels(latlng, tileCoords, tileSize, map)
projectToTilePixels(latlng, tileCoords, tileSize) ==
    ProjectInto(tileCoordsToBounds(tileCoords), tileSize, latlng)

\* the centre of pixel (i, j) of a box, in the units of ProjectInto
PixelCentre(box, px) ==
    [x |-> (2 * px.i + 1) * (box.e - box.w),
     y |-> (2 * px.j + 1) * (box.n - box.s)]

PixelsOf(size) == [i : 0..(size.x - 1), j : 0..(size.y - 1)]

\* The 2D canvas: beginPath, moveTo / lineTo over the points, closePath,
\* clip() and drawImage.  clip() uses the non-zero winding rule: a point
\* is inside the path when the edges crossing a ray from it do not cancel
\* out (upward crossings minus downward crossings).
InsidePath(point, path) ==
    LET n == Len(path)
        crosses(i) == LET j == IF i = 1 THEN n ELSE i - 1
                      IN  EdgeCrosses(path[i].x, path[i].y, path[j].x, path[j].y,
                                      point.x, point.y)
        up == {i \in 1..n : crosses(i) /\ path[i].y > path[IF i = 1 THEN n ELSE i - 1].y}
        down == {i \in 1..n : crosses(i) /\ path[i].y < path[IF i = 1 THEN n ELSE i - 1].y}
    IN  Cardinality(up) # Cardinality(down)

\* ctx.clip(), then (inverted mode only) ctx.fill() with the fully
\* transparent colour rgba(0, 0, 0, 0), which paints nothing, then
\* ctx.drawImage over the whole canvas: the pixels of the canvas that show
\* the image are those whose centre is inside the clip path, in both modes
ClipAndDraw(box, size, path, invert) ==
    IF invert
    THEN {px \in PixelsOf(size) : InsidePath(PixelCentre(box, px), path)}
    ELSE {px \in PixelsOf(size) : InsidePath(PixelCentre(box, px), path)}

\* _getBoundaryBounds(): min / max over the ring's vertices
Min(S) == CHOOSE m \in S : \A k \in S : m <= k

Max(S) == CHOOSE m \in S : \A k \in S : m >= k

getBoundaryBounds(ring) ==
    LET lats == {ring[i].lat : i \in 1..Len(ring)}
        lngs == {ring[i].lng : i \in 1..Len(ring)}
    IN  Box(Min(lats), Min(lngs), Max(lats), Max(lngs))

\* L.LatLngBounds.contains(latlng): edges included
BoundsContains(box, latlng) ==
    /\ box.s <= latlng.lat /\ latlng.lat <= box.n
    /\ box.w <= latlng.lng /\ latlng.lng <= box.e

\* L.LatLngBounds.intersects(other): touching counts
BoundsIntersects(a, b) ==
    /\ b.n >= a.s /\ b.s <= a.n
    /\ b.e >= a.w /\ b.w <= a.e

\* mutant of _tileIntersectsBoundary: the test of the two bounds is left out
tileIntersectsBoundaryNoBoundsTest(coords, ring) ==
    LET tileBounds == tileCoordsToBounds(coords)
        tileCorners == {[lat |-> tileBounds.s, lng |-> tileBounds.w],
                        [lat |-> tileBounds.n, lng |-> tileBounds.e],
                        [lat |-> tileBounds.s, lng |-> tileBounds.e],
                        [lat |-> tileBounds.n, lng |-> tileBounds.w]}
    IN  \/ \E c \in tileCorners : pointInBoundary(c, ring)
        \/ \E j \in 1..Len(ring) : BoundsContains(tileBounds, ring[j])

\* _tileIntersectsBoundary(coords)
tileIntersectsBoundary(coords, ring) ==
    LET tileBounds == tileCoordsToBounds(coords)
        tileCorners == {[lat |-> tileBounds.s, lng |-> tileBounds.w],
                        [lat |-> tileBounds.n, lng |-> tileBounds.e],
                        [lat |-> tileBounds.s, lng |-> tileBounds.e],
                        [lat |-> tileBounds.n, lng |-> tileBounds.w]}
    IN  IF \E c \in tileCorners : pointInBoundary(c, ring)
        THEN TRUE
        ELSE IF \E j \in 1..Len(ring) : BoundsContains(tileBounds, ring[j])
        THEN TRUE
        ELSE BoundsIntersects(tileBounds, getBoundaryBounds(ring))

\* _tileCoordsToBounds(coords) in units of 1 / Scale
tileCoordsToBoundsNum(coords) ==
    LET b == tileCoordsToBounds(coords)
    IN  Box(b.s * Scale, b.w * Scale, b.n * Scale, b.e * Scale)

\* mutant of _tileIntersectsBoundary on Numbers: the test of the two
\* bounds is left out
tileIntersectsBoundaryNumNoBoundsTest(coords, ring) ==
    LET tileBounds == tileCoordsToBoundsNum(coords)
        tileCorners == {[lat |-> tileBounds.s, lng |-> tileBounds.w],
                        [lat |-> tileBounds.n, lng |-> tileBounds.e],
                        [lat |-> tileBounds.s, lng |-> tileBounds.e],
                        [lat |-> tileBounds.n, lng |-> tileBounds.w]}
    IN  \/ \E c \in tileCorners : pointInBoundaryNum(c, ring)
        \/ \E j \in 1..Len(ring) : BoundsContains(tileBounds, ring[j])

\* _tileIntersectsBoundary(coords) on Numbers
tileIntersectsBoundaryNum(coords, ring) ==
    LET tileBounds == tileCoordsToBoundsNum(coords)
        tileCorners == {[lat |-> tileBounds.s, lng |-> tileBounds.w],
                        [lat |-> tileBounds.n, lng |-> tileBounds.e],
                        [lat |-> tileBounds.s, lng |-> tileBounds.e],
                        [lat |-> tileBounds.n, lng |-> tileBounds.w]}
    IN  IF \E c \in tileCorners : pointInBoundaryNum(c, ring)
        THEN TRUE
        ELSE IF \E j \in 1..Len(ring) : BoundsContains(tileBounds, ring[j])
        THEN TRUE
        ELSE BoundsIntersects(tileBounds, getBoundaryBounds(ring))

\* mutant of _applyClip: a tile is skipped when none of its corners is
\* inside the ring
applyClipSkipsByCorners(coords, ring, invert) ==
    LET tileSize == getTileSize
        tb == tileCoordsToBounds(coords)
        boundaryPixels == [k \in 1..Len(ring) |->
                              projectToTilePixels(ring[k], coords, tileSize)]
    IN  IF ~invert /\ ~\E lat \in {tb.s, tb.n}, lng \in {tb.w, tb.e} :
                           pointInBoundary([lat |-> lat, lng |-> lng], ring)
        THEN {}
        ELSE ClipAndDraw(tb, tileSize, boundaryPixels, invert)

\* _applyClip(canvas, ctx, tileImg, coords, done): the pixels of the tile's
\* canvas that show the image when done(null, canvas) is called
applyClip(coords, ring, invert) ==
    LET tileSize == getTileSize
        boundaryPixels == [k \in 1..Len(ring) |->
                              projectToTilePixels(ring[k], coords, tileSize)]
    IN  IF ~invert /\ ~tileIntersectsBoundary(coords, ring)
        THEN {}
        ELSE ClipAndDraw(tileCoordsToBounds(coords), tileSize, boundaryPixels, invert)

\* this._map.latLngToContainerPoint(ll) for the map view v: the position
\* of ll in the map container
latLngToContainerPoint(v, ll) == ProjectInto(v.box, v.size, ll)

\* _applyClipToImage(img, bounds, size): the pixels of the size.x by size.y
\* canvas that show the image; the ring is projected with the map's view
\* at the time of the call
applyClipToImage(ring, invert, size, mapView) ==
    LET boundaryPixels == [k \in 1..Len(ring) |-> latLngToContainerPoint(mapView, ring[k])]
    IN  ClipAndDraw(mapView.box, size, boundaryPixels, invert)

----------------------------------------------------------------------------
(* Construction: the two factory functions *)

\* L.TileLayer.WMS.Clipped.initialize / L.ImageOverlay.WMS.Clipped.initialize:
\* this._boundary = normalizeBoundary(boundary); a throw leaves no object
Construct(class, boundary) ==
    LET r == normalizeBoundary(boundary)
    IN  IF r.err = "none"
        THEN [handle |-> class, thrown |-> "none", stored |-> r.ring]
        ELSE [handle |-> "none", thrown |-> r.err, stored |-> <<>>]

\* L.tileLayer.wms.clipped(baseUrl, options, boundary)
createClippedTileLayer ==
    /\ phase = "ready"
    /\ LET o == Construct("tile", arg)
       IN  /\ handle' = o.handle
           /\ thrown' = o.thrown
           /\ stored' = o.stored
    /\ called' = "tile"
    /\ phase' = "returned"
    /\ UNCHANGED <<arg, result, layerVars>>

\* L.imageOverlay.wms.clipped(baseUrl, options, boundary)
createClippedImageOverlay ==
    /\ phase = "ready"
    /\ LET o == Construct("overlay", arg)
       IN  /\ handle' = o.handle
           /\ thrown' = o.thrown
           /\ stored' = o.stored
    /\ called' = "overlay"
    /\ phase' = "returned"
    /\ UNCHANGED <<arg, result, layerVars>>

\* no layer is followed (the layer variables, while construction is studied)
NoLayer ==
    /\ kind = "none"
    /\ heap = <<>>
    /\ thisBoundary = 0
    /\ invertClip = FALSE
    /\ map = FALSE
    /\ callerRef = 0
    /\ gotRef = 0
    /\ tiles = <<>>
    /\ view = <<>>
    /\ fetches = {}
    /\ issued = 0
    /\ published = <<>>
    /\ calls = 0
    /\ edits = 0
    /\ lastSet = <<>>
    /\ lastEdit = "none"
    /\ completion = <<>>

\* before the call: any boundary argument, nothing constructed
NormInit ==
    /\ IsArg(arg)
    /\ phase = "ready"
    /\ called = "none"
    /\ handle = "none"
    /\ thrown = "none"
    /\ stored = <<>>
    /\ result = "none"
    /\ NoLayer

NormNext ==
    \/ createClippedTileLayer
    \/ createClippedImageOverlay

SpecNorm == NormInit /\ [][NormNext]_vars

----------------------------------------------------------------------------
(* The geometry helpers, called on their own *)

\* vertices of the polygons given to pointInPolygon: multiples of 12, so
\* that the mean of three or four of them is a whole number
PipVals == {12 * k : k \in 0..MaxPip}

PipPoints == [x : PipVals, y : PipVals]

\* polygons of three and of four distinct vertices, in any order (convex,
\* concave, self-crossing, flat), and triangles with the first vertex
\* repeated at the end
Triangles ==
    {<<a, b, c>> : a, b, c \in PipPoints} \ {t \in {<<a, b, c>> : a, b, c \in PipPoints} :
                                                t[1] = t[2] \/ t[1] = t[3] \/ t[2] = t[3]}

Quadrilaterals ==
    {q \in {<<a, b, c, d>> : a, b, c, d \in PipPoints} :
        \A i, j \in 1..4 : i # j => q[i] # q[j]}

Polygons == Triangles \cup Quadrilaterals \cup {Append(t, t[1]) : t \in Triangles}

\* the vertices of a polygon without the repeated closing vertex
OpenRing(polygon) ==
    IF Len(polygon) > 1 /\ polygon[Len(polygon)] = polygon[1]
    THEN SubSeq(polygon, 1, Len(polygon) - 1)
    ELSE polygon

RECURSIVE SumOver(_, _, _)
SumOver(polygon, f, k) ==
    IF k = 0 THEN 0 ELSE polygon[k][f] + SumOver(polygon, f, k - 1)

\* the centroid (mean of the vertices) of a polygon
Centroid(polygon) ==
    LET q == OpenRing(polygon)
    IN  [x |-> SumOver(q, "x", Len(q)) \div Len(q),
         y |-> SumOver(q, "y", Len(q)) \div Len(q)]

\* probe points: beside, between and on the lines of the vertices
PipProbeVals == {-6, 6, 12, 18, 12 * MaxPip + 6}

PipProbes == [x : PipProbeVals, y : PipProbeVals]

\* rings and tiles given to _tileIntersectsBoundary: rectangles between
\* the parallels and meridians below, and the triangles of three of their
\* corners; all the tiles of zoom 1 and 2
GeoLats == {-80, -30, 10, 40, 80}

GeoLngs == {-170, -100, -20, 30, 80, 170}

GeoQuads ==
    {Box(s, w, n, e) : s \in GeoLats, w \in GeoLngs, n \in GeoLats, e \in GeoLngs} \
        {b \in {Box(s, w, n, e) : s \in GeoLats, w \in GeoLngs, n \in GeoLats, e \in GeoLngs} :
            b.s >= b.n \/ b.w >= b.e}

GeoRings ==
    UNION {{Close(Corners(q))} \cup
           {Close(SubSeq(Rotate(Corners(q), k), 1, 3)) : k \in 0..3} : q \in GeoQuads}

GeoTiles ==
    {[z |-> zz, x |-> xx, y |-> yy] : zz \in 1..2, xx \in 0..3, yy \in 0..3} \
        {c \in {[z |-> zz, x |-> xx, y |-> yy] : zz \in 1..2, xx \in 0..3, yy \in 0..3} :
            c.x >= Pow2(c.z) \/ c.y >= Pow2(c.z)}

GeoLatLngs == [lat : {-85, 0, 20, 60}, lng : {-175, -50, 0, 50, 175}]

\* pointInPolygon(point, polygon)
pointInPolygonCall ==
    /\ phase = "ready"
    /\ arg.kind = "pointInPolygon"
    /\ result' = pointInPolygon(arg.point, arg.polygon)
    /\ called' = "pointInPolygon"
    /\ phase' = "returned"
    /\ UNCHANGED <<arg, handle, thrown, stored, layerVars>>

\* layer._pointInBoundary(latlng), this._boundary being arg.ring
pointInBoundaryCall ==
    /\ phase = "ready"
    /\ arg.kind = "pointInBoundary"
    /\ result' = pointInBoundary(arg.latlng, arg.ring)
    /\ called' = "pointInBoundary"
    /\ phase' = "returned"
    /\ UNCHANGED <<arg, handle, thrown, stored, layerVars>>

\* layer._tileIntersectsBoundary(coords), this._boundary being arg.ring
tileIntersectsBoundaryCall ==
    /\ phase = "ready"
    /\ arg.kind = "tileIntersectsBoundary"
    /\ result' = tileIntersectsBoundary(arg.coords, arg.ring)
    /\ called' = "tileIntersectsBoundary"
    /\ phase' = "returned"
    /\ UNCHANGED <<arg, handle, thrown, stored, layerVars>>

\* before the call: the helper's arguments
GeomInit ==
    /\ \/ \E polygon \in Polygons :
             \E point \in PipProbes \cup {Centroid(polygon)} :
                arg = [kind |-> "pointInPolygon", point |-> point, polygon |-> polygon]
       \/ \E ring \in GeoRings, latlng \in GeoLatLngs :
             arg = [kind |-> "pointInBoundary", latlng |-> latlng, ring |-> ring]
       \/ \E ring \in GeoRings, coords \in GeoTiles :
             arg = [kind |-> "tileIntersectsBoundary", coords |-> coords, ring |-> ring]
    /\ phase = "ready"
    /\ called = "none"
    /\ handle = "none"
    /\ thrown = "none"
    /\ stored = <<>>
    /\ result = "none"
    /\ NoLayer

GeomNext ==
    \/ pointInPolygonCall
    \/ pointInBoundaryCall
    \/ tileIntersectsBoundaryCall

SpecGeom == GeomInit /\ [][GeomNext]_vars

----------------------------------------------------------------------------
(* The geometry helpers called with Numbers that are not whole *)

\* polygons with whole-number vertices, as counts of units
NumVertices == {[x |-> a * Scale, y |-> b * Scale] : a \in 0..2, b \in {0, 1, 3}}

NumTriangles ==
    {t \in {<<a, b, c>> : a, b, c \in NumVertices} :
        t[1] # t[2] /\ t[1] # t[3] /\ t[2] # t[3]}

\* the mean of the vertices, each coordinate the nearest Number
NumCentroid(polygon) ==
    [x |-> Round(SumOver(polygon, "x", Len(polygon)), Len(polygon)),
     y |-> Round(SumOver(polygon, "y", Len(polygon)), Len(polygon))]

\* probe points: on the parallels 1 and 2, at the Numbers between 5/16
\* and 3/8 and between 5/8 and 3/4; and four points beside, above and
\* below all the vertices
NumProbes ==
    {[x |-> u, y |-> b * Scale] :
        u \in {k \in (5 * Scale) \div 16 .. (3 * Scale) \div 8 : Round(k, 1) = k}
              \cup {k \in (5 * Scale) \div 8 .. (3 * Scale) \div 4 : Round(k, 1) = k},
        b \in 1..2}
    \cup {[x |-> -Scale, y |-> Scale], [x |-> 3 * Scale, y |-> Scale],
          [x |-> Scale, y |-> 4 * Scale], [x |-> Scale, y |-> -Scale]}

\* triangles with one vertex a single unit east of the meridian 0, on the
\* parallel 0, and probe points on that parallel
NumApex == [x |-> 1, y |-> 0]

NumApexTriangles ==
    {t \in {<<a, b, c>> : a, b, c \in {NumApex} \cup
                              {[x |-> a * Scale, y |-> b * Scale] : a \in 1..2, b \in {1, 3}}} :
        /\ t[1] # t[2] /\ t[1] # t[3] /\ t[2] # t[3]
        /\ \E i \in 1..3 : t[i] = NumApex}

NumApexProbes == {[x |-> u, y |-> 0] : u \in {-Scale, 0, 1, 2, Scale}}

\* rings of three vertices around the place (0, 0), one unit east of the
\* meridian 0 among the longitudes; the four tiles of zoom 1
NumRings ==
    {r \in {<<a, b, c>> : a, b, c \in {Pair(la * Scale, lo) :
                                          la \in -1..1, lo \in {-Scale, 1, Scale, 2 * Scale}}} :
        r[1] # r[2] /\ r[1] # r[3] /\ r[2] # r[3]}

NumTiles == {[z |-> 1, x |-> xx, y |-> yy] : xx \in 0..1, yy \in 0..1}

\* pointInPolygon(point, polygon)
pointInPolygonNumCall ==
    /\ phase = "ready"
    /\ arg.kind = "pointInPolygon"
    /\ result' = pointInPolygonNum(arg.point, arg.polygon)
    /\ called' = "pointInPolygon"
    /\ phase' = "returned"
    /\ UNCHANGED <<arg, handle, thrown, stored, layerVars>>

\* layer._tileIntersectsBoundary(coords), this._boundary being arg.ring
tileIntersectsBoundaryNumCall ==
    /\ phase = "ready"
    /\ arg.kind = "tileIntersectsBoundary"
    /\ result' = tileIntersectsBoundaryNum(arg.coords, arg.ring)
    /\ called' = "tileIntersectsBoundary"
    /\ phase' = "returned"
    /\ UNCHANGED <<arg, handle, thrown, stored, layerVars>>

NumInit ==
    /\ \/ \E polygon \in NumTriangles :
             \E point \in NumProbes \cup {NumCentroid(polygon)} :
                arg = [kind |-> "pointInPolygon", point |-> point, polygon |-> polygon]
       \/ \E polygon \in NumApexTriangles, point \in NumApexProbes :
             arg = [kind |-> "pointInPolygon", point |-> point, polygon |-> polygon]
       \/ \E ring \in NumRings, coords \in NumTiles :
             arg = [kind |-> "tileIntersectsBoundary", coords |-> coords, ring |-> ring]
    /\ phase = "ready"
    /\ called = "none"
    /\ handle = "none"
    /\ thrown = "none"
    /\ stored = <<>>
    /\ result = "none"
    /\ NoLayer

NumNext ==
    \/ pointInPolygonNumCall
    \/ tileIntersectsBoundaryNumCall

SpecNum == NumInit /\ [][NumNext]_vars

----------------------------------------------------------------------------
(* A constructed layer: the tile layer or the image overlay *)

\* the tile addresses the host asks for: zoom 2, the tiles north-east and
\* south-west of (0, 0)
TileAddrs == {[z |-> 2, x |-> 2, y |-> 1], [z |-> 2, x |-> 1, y |-> 2]}

\* the views the host's map can have: bounds and container size in pixels
Views ==
    {[box |-> Box(0, 0, 80, 100), size |-> [x |-> 4, y |-> 4]],
     [box |-> Box(0, 0, 40, 50), size |-> [x |-> 4, y |-> 4]],
     [box |-> Box(-40, -50, 40, 50), size |-> [x |-> 4, y |-> 4]],
     [box |-> Box(0, 0, 80, 50), size |-> [x |-> 2, y |-> 4]]}

\* rings callers pass: the corners of a rectangle inside the north-east
\* tile (not closed), a rectangle in the south-west, a triangle
RingPart == Corners(Box(10, 10, 50, 80))

RingFar == Close(Corners(Box(-60, -80, -10, -10)))

RingTri == <<Pair(10, 10), Pair(60, 10), Pair(10, 80), Pair(10, 10)>>

CallerRings == {RingTri, RingFar}

\* boundaries callers pass in the other formats
CallerBounds == {LatLngBounds(Box(-5, -5, 70, 95))}

CallerPolygons == {LPolygon(RingPart)}

CallerFeatures == {GeoFeature(GeoPolygon(<<LinearRing(RingFar)>>))}

CallerCollections ==
    {GeoFeatureCollection(<<GeoFeature(GeoPolygon(<<LinearRing(RingFar)>>))>>)}

\* this._boundary, as a ring
Ring == heap[thisBoundary]

NoTile == [st |-> "none", canvas |-> {}, ring |-> <<>>, under |-> <<>>,
           changed |-> FALSE, done |-> <<>>]

\* the dummy image overlay of initialize: url '', bounds [[0,0],[0,0]]
NoImage == [image |-> 0, url |-> "", bounds |-> Box(0, 0, 0, 0), size |-> [x |-> 0, y |-> 0],
            pixels |-> {}, ring |-> <<>>, drawnFor |-> <<>>, changed |-> FALSE, replaced |-> 0]

\* no viewport fetch has completed yet
NoCompletion == [image |-> 0, outcome |-> "none"]

\* no setBoundary call yet
NoCall == [arg |-> <<>>, saw |-> <<>>, requests |-> 0, result |-> "none"]

\* the view of the host's map when the layer is constructed
FirstView == CHOOSE v \in Views : v.box = Box(0, 0, 80, 100)

\* The state after new L.TileLayer.WMS.Clipped(url, options, b) or
\* new L.ImageOverlay.WMS.Clipped(url, options, b) returned, for the class
\* c, options.invertClip = inv and the boundary b; ref is the address of b
\* when b is an array (then h holds it), else 0
Constructed(c, inv, b, ref, h) ==
    LET r == normalizeBoundary(b)
        h1 == IF r.same THEN h ELSE Append(h, r.ring)
    IN  /\ r.err = "none"
        /\ kind = c
        /\ invertClip = inv
        /\ heap = h1
        /\ thisBoundary = (IF r.same THEN ref ELSE Len(h1))
        /\ callerRef = ref
        /\ map = FALSE
        /\ gotRef = 0
        /\ tiles = [t \in TileAddrs |-> NoTile]
        /\ view = FirstView
        /\ fetches = {}
        /\ issued = 0
        /\ published = NoImage
        /\ calls = 0
        /\ edits = 0
        /\ lastSet = NoCall
        /\ lastEdit = "none"
        /\ completion = NoCompletion

\* no factory call is followed (the construction variables, while a
\* constructed layer is studied)
NoFactoryCall ==
    /\ arg = <<>>
    /\ phase = "done"
    /\ called = "none"
    /\ handle = "none"
    /\ thrown = "none"
    /\ stored = <<>>
    /\ result = "none"

Init ==
    /\ NoFactoryCall
    /\ \E c \in {"tile", "overlay"}, inv \in BOOLEAN :
          \/ Constructed(c, inv, JsArray(RingTri), 1, <<RingTri>>)
          \/ \E b \in CallerBounds : Constructed(c, inv, b, 0, <<>>)
          \/ \E b \in CallerPolygons : Constructed(c, inv, b, 0, <<>>)

\* the parameters of the GetMap request that _update builds: BBOX is
\* west,south,east,north; WIDTH and HEIGHT the size in pixels
WmsUrl(bounds, size) ==
    [BBOX |-> <<bounds.w, bounds.s, bounds.e, bounds.n>>,
     WIDTH |-> size.x, HEIGHT |-> size.y]

\* mutant of _update: the test of this._map is left out
UpdateWithoutMapTest(m, v, ring) ==
    /\ fetches' = fetches \cup {[id |-> issued + 1, url |-> WmsUrl(v.box, v.size),
                                  bounds |-> v.box, size |-> v.size, under |-> ring]}
    /\ issued' = issued + 1

\* _update() of the overlay, called while this._map is m, the map's view
\* is v and the stored ring is ring: nothing without a map, else one image
\* request for the view's bounds and size
Update(m, v, ring) ==
    IF m
    THEN /\ fetches' = fetches \cup {[id |-> issued + 1, url |-> WmsUrl(v.box, v.size),
                                       bounds |-> v.box, size |-> v.size, under |-> ring]}
         /\ issued' = issued + 1
    ELSE UNCHANGED <<fetches, issued>>

\* the fetch bound of the model leaves room for a call of _update()
CanUpdate == issued < MaxFetches

\* mutant of setBoundary: redraw() / _update() is called first and the new
\* ring is stored afterwards
setBoundaryRedrawsFirst(b, ref, h) ==
    LET r == normalizeBoundary(b)
        h1 == IF r.same THEN h ELSE Append(h, r.ring)
        a == IF r.same THEN ref ELSE Len(h1)
    IN  /\ calls < MaxCalls
        /\ calls + edits < MaxOps
        /\ (kind = "overlay" /\ map) => CanUpdate
        /\ calls' = calls + 1
        /\ IF r.err # "none"
           THEN /\ heap' = h
                /\ lastSet' = [arg |-> b, saw |-> <<>>, requests |-> 0, result |-> "threw"]
                /\ UNCHANGED <<thisBoundary, fetches, issued>>
           ELSE /\ heap' = h1
                /\ thisBoundary' = a
                /\ IF kind = "tile"
                   THEN UNCHANGED <<fetches, issued>>
                   ELSE Update(map, view, Ring)
                /\ lastSet' = [arg |-> b, saw |-> Ring, requests |-> 1, result |-> "this"]
        /\ UNCHANGED <<normVars, kind, invertClip, map, gotRef, tiles, view, published,
                       edits, lastEdit, completion>>

\* mutant of setBoundary: the vertices of the new ring are added to those
\* of the stored ring
setBoundaryAddsVertices(b, ref, h) ==
    LET r == normalizeBoundary(b)
        h1 == Append(h, Ring \o r.ring)
        a == Len(h1)
    IN  /\ calls < MaxCalls
        /\ calls + edits < MaxOps
        /\ (kind = "overlay" /\ map) => CanUpdate
        /\ calls' = calls + 1
        /\ IF r.err # "none"
           THEN /\ heap' = h
                /\ lastSet' = [arg |-> b, saw |-> <<>>, requests |-> 0, result |-> "threw"]
                /\ UNCHANGED <<thisBoundary, fetches, issued>>
           ELSE /\ heap' = h1
                /\ thisBoundary' = a
                /\ IF kind = "tile"
                   THEN UNCHANGED <<fetches, issued>>
                   ELSE Update(map, view, h1[a])
                /\ lastSet' = [arg |-> b, saw |-> h1[a], requests |-> 1, result |-> "this"]
        /\ UNCHANGED <<normVars, kind, invertClip, map, gotRef, tiles, view, published,
                       edits, lastEdit, completion>>

\* setBoundary(boundary), of both classes: normalizeBoundary may throw,
\* before anything is changed; else this._boundary is assigned, then
\* this.redraw() (tile layer) or this._update() (overlay) is called once,
\* then `this` is returned.  b is the argument, ref its address when it is
\* an array (0 otherwise), h the heap at the call.
setBoundary(b, ref, h) ==
    LET r == normalizeBoundary(b)
        h1 == IF r.same THEN h ELSE Append(h, r.ring)
        a == IF r.same THEN ref ELSE Len(h1)
    IN  /\ calls < MaxCalls
        /\ calls + edits < MaxOps
        /\ (kind = "overlay" /\ map) => CanUpdate
        /\ calls' = calls + 1
        /\ IF r.err # "none"
           THEN /\ heap' = h
                /\ lastSet' = [arg |-> b, saw |-> <<>>, requests |-> 0, result |-> "threw"]
                /\ UNCHANGED <<thisBoundary, fetches, issued>>
           ELSE /\ heap' = h1
                /\ thisBoundary' = a
                /\ IF kind = "tile"
                   THEN UNCHANGED <<fetches, issued>>
                   ELSE Update(map, view, h1[a])
                /\ lastSet' = [arg |-> b, saw |-> h1[a], requests |-> 1, result |-> "this"]
        /\ UNCHANGED <<normVars, kind, invertClip, map, gotRef, tiles, view, published,
                       edits, lastEdit, completion>>

\* the caller builds a new array and passes it
SetBoundaryNewArray ==
    \E ring \in CallerRings :
        /\ setBoundary(JsArray(ring), Len(heap) + 1, Append(heap, ring))
        /\ callerRef' = Len(heap) + 1

\* the caller passes an array it already holds: the one it passed before,
\* or the one getBoundary() returned
SetBoundarySameArray ==
    \E ref \in {callerRef, gotRef} \ {0} :
        /\ setBoundary(JsArray(heap[ref]), ref, heap)
        /\ callerRef' = ref

\* the caller passes a bounds object, a polygon, a GeoJSON Feature or (not
\* supported) a FeatureCollection
SetBoundaryObject ==
    /\ \/ \E b \in CallerBounds : setBoundary(b, 0, heap)
       \/ \E b \in CallerPolygons : setBoundary(b, 0, heap)
       \/ \E b \in CallerFeatures : setBoundary(b, 0, heap)
       \/ \E b \in CallerCollections : setBoundary(b, 0, heap)
    /\ UNCHANGED callerRef

\* the caller passes an array that is no ring of [lat, lng] pairs
SetBoundaryOddArray ==
    \E b \in OddArrays :
        /\ setBoundary(b, Len(heap) + 1, Append(heap, b.elems))
        /\ callerRef' = Len(heap) + 1

\* the caller passes an object of no supported format, or null
SetBoundaryOddObject ==
    /\ \/ \E b \in OtherArgs : setBoundary(b, 0, heap)
       \/ \E b \in EmptyGeoArgs : setBoundary(b, 0, heap)
       \/ \E b \in FeaturePointArgs : setBoundary(b, 0, heap)
    /\ UNCHANGED callerRef

\* getBoundary(): return this._boundary
GetBoundary ==
    /\ gotRef # thisBoundary
    /\ gotRef' = thisBoundary
    /\ UNCHANGED <<normVars, kind, heap, thisBoundary, invertClip, map, callerRef,
                   tiles, view, fetches, issued, published, calls, edits,
                   lastSet, lastEdit, completion>>

\* the in-place changes a caller makes to an array it holds: a vertex
\* replaced (arr[1] = [0, 0]), added (push) or removed (pop)
Edited(ring) ==
    {[ring EXCEPT ![2] = Pair(0, 0)], Append(ring, Pair(0, 0)),
     SubSeq(ring, 1, Len(ring) - 1)}

EditArray(ref, whose) ==
    /\ ref # 0
    /\ edits < MaxEdits
    /\ calls + edits < MaxOps
    /\ \E ring \in Edited(heap[ref]) : heap' = [heap EXCEPT ![ref] = ring]
    /\ edits' = edits + 1
    /\ lastEdit' = whose
    /\ UNCHANGED <<normVars, kind, thisBoundary, invertClip, map, callerRef, gotRef,
                   tiles, view, fetches, issued, published, calls, lastSet, completion>>

\* the caller changes the array it passed as boundary
EditArgument == EditArray(callerRef, "argument")

\* the caller changes the array getBoundary() returned
EditReturned == EditArray(gotRef, "returned")

\* layer.addTo(map): onAdd.  The overlay sets this._map, calls _update()
\* and listens to moveend, zoomend and resize
OnAdd ==
    /\ ~map
    /\ map' = TRUE
    /\ IF kind = "overlay"
       THEN CanUpdate /\ Update(TRUE, view, Ring)
       ELSE UNCHANGED <<fetches, issued>>
    /\ UNCHANGED <<normVars, kind, heap, thisBoundary, invertClip, callerRef, gotRef,
                   tiles, view, published, calls, edits, lastSet, lastEdit, completion>>

\* layer.remove(): onRemove; the listeners are removed and the host clears
\* this._map
OnRemove ==
    /\ map
    /\ map' = FALSE
    /\ UNCHANGED <<normVars, kind, heap, thisBoundary, invertClip, callerRef, gotRef,
                   tiles, view, fetches, issued, published, calls, edits,
                   lastSet, lastEdit, completion>>

\* mutant of Notify: the request is built from the view of the update
\* before
NotifyKeepsView(v) ==
    /\ kind = "overlay"
    /\ map
    /\ v # view
    /\ view' = v
    /\ CanUpdate
    /\ Update(TRUE, view, Ring)
    /\ UNCHANGED <<normVars, kind, heap, thisBoundary, invertClip, map, callerRef,
                   gotRef, tiles, published, calls, edits, lastSet, lastEdit, completion>>

\* the host's map changes its view to v and notifies; the overlay's
\* listener, registered while the overlay is on the map, is _update (the
\* map an overlay is not on is not followed)
Notify(v) ==
    /\ kind = "overlay"
    /\ map
    /\ v # view
    /\ view' = v
    /\ CanUpdate
    /\ Update(TRUE, v, Ring)
    /\ UNCHANGED <<normVars, kind, heap, thisBoundary, invertClip, map, callerRef,
                   gotRef, tiles, published, calls, edits, lastSet, lastEdit, completion>>

\* the host's map pans, zooms or is resized to the view v while the
\* overlay is not on it: the overlay has no listener on the map (onAdd has
\* not registered them, or onRemove has removed them) and _update is not
\* called
ViewChangeOffMap ==
    \E v \in Views :
        /\ kind = "overlay"
        /\ ~map
        /\ v # view
        /\ view' = v
        /\ UNCHANGED <<normVars, kind, heap, thisBoundary, invertClip, map, callerRef,
                       gotRef, tiles, fetches, issued, published, calls, edits,
                       lastSet, lastEdit, completion>>

\* pan: the bounds move, the container keeps its size
MoveEnd == \E v \in Views : v.size = view.size /\ v.box.s # view.box.s /\ Notify(v)

\* zoom: the bounds shrink or grow, the container keeps its size
ZoomEnd == \E v \in Views : v.size = view.size /\ v.box.s = view.box.s /\ Notify(v)

\* the container changes its size
Resize == \E v \in Views : v.size # view.size /\ Notify(v)

\* mutant of Publish: the image is published with the bounds of the
\* map's view at completion
PublishWithCurrentBounds(f) ==
    [image |-> f.id, url |-> f.url, bounds |-> view.box, size |-> f.size,
     pixels |-> applyClipToImage(Ring, invertClip, f.size, view),
     ring |-> Ring, drawnFor |-> view, changed |-> (f.under # Ring),
     replaced |-> published.image]

\* what _applyClipToImage(img, bounds, size) publishes for the fetch f:
\* the canvas (the image of f, clipped by the ring as this._map projects
\* it now) by setUrl, the bounds of the request by setBounds
Publish(f) ==
    [image |-> f.id, url |-> f.url, bounds |-> f.bounds, size |-> f.size,
     pixels |-> applyClipToImage(Ring, invertClip, f.size, view),
     ring |-> Ring, drawnFor |-> view, changed |-> (f.under # Ring),
     replaced |-> published.image]

\* mutant of ImageLoad: an image older than the published one is dropped
ImageLoadChecksGeneration ==
    \E f \in fetches :
        /\ fetches' = fetches \ {f}
        /\ IF ~map /\ Len(Ring) > 0
           THEN /\ UNCHANGED published
                /\ completion' = [image |-> f.id, outcome |-> "threw"]
           ELSE IF f.id < published.image
           THEN /\ UNCHANGED published
                /\ completion' = [image |-> f.id, outcome |-> "dropped"]
           ELSE /\ published' = Publish(f)
                /\ completion' = [image |-> f.id, outcome |-> "published"]
        /\ UNCHANGED <<normVars, kind, heap, thisBoundary, invertClip, map, callerRef,
                       gotRef, tiles, view, issued, calls, edits, lastSet, lastEdit>>

\* img.onload of a viewport fetch f: _applyClipToImage(img, bounds, size)
\* with the bounds and size of the request.  Without a map,
\* this._map.latLngToContainerPoint throws for the first vertex and
\* nothing is published.
ImageLoad ==
    \E f \in fetches :
        /\ fetches' = fetches \ {f}
        /\ IF ~map /\ Len(Ring) > 0
           THEN /\ UNCHANGED published
                /\ completion' = [image |-> f.id, outcome |-> "threw"]
           ELSE /\ published' = Publish(f)
                /\ completion' = [image |-> f.id, outcome |-> "published"]
        /\ UNCHANGED <<normVars, kind, heap, thisBoundary, invertClip, map, callerRef,
                       gotRef, tiles, view, issued, calls, edits, lastSet, lastEdit>>

\* img.onerror of a viewport fetch: console.error
ImageError ==
    \E f \in fetches :
        /\ fetches' = fetches \ {f}
        /\ completion' = [image |-> f.id, outcome |-> "error"]
        /\ UNCHANGED <<normVars, kind, heap, thisBoundary, invertClip, map, callerRef,
                       gotRef, tiles, view, issued, published, calls, edits,
                       lastSet, lastEdit>>

\* createTile(coords, done), called by the host for a tile of the map: a
\* new canvas, and the tile image is requested
CreateTile ==
    \E t \in TileAddrs :
        /\ kind = "tile"
        /\ map
        /\ tiles[t].st # "requested"
        /\ tiles' = [tiles EXCEPT ![t] = [NoTile EXCEPT !.st = "requested", !.under = Ring]]
        /\ UNCHANGED <<normVars, kind, heap, thisBoundary, invertClip, map, callerRef,
                       gotRef, view, fetches, issued, published, calls, edits,
                       lastSet, lastEdit, completion>>

\* mutant of TileLoadAt: the tile is clipped by the ring that was stored
\* when the tile was requested
TileLoadAtIssueRing(t) ==
    /\ tiles[t].st = "requested"
    /\ tiles' = [tiles EXCEPT ![t] =
                    [st |-> "masked",
                     canvas |-> applyClip(t, @.under, invertClip),
                     ring |-> @.under,
                     under |-> <<>>,
                     changed |-> (@.under # Ring),
                     done |-> Append(@.done, "ok")]]
    /\ UNCHANGED <<normVars, kind, heap, thisBoundary, invertClip, map, callerRef,
                   gotRef, view, fetches, issued, published, calls, edits,
                   lastSet, lastEdit, completion>>

\* mutant of TileLoadAt: done is called a second time after _applyClip
\* returned
TileLoadAtCallsDoneTwice(t) ==
    /\ tiles[t].st = "requested"
    /\ tiles' = [tiles EXCEPT ![t] =
                    [st |-> "masked",
                     canvas |-> applyClip(t, Ring, invertClip),
                     ring |-> Ring,
                     under |-> <<>>,
                     changed |-> (@.under # Ring),
                     done |-> Append(Append(@.done, "ok"), "ok")]]
    /\ UNCHANGED <<normVars, kind, heap, thisBoundary, invertClip, map, callerRef,
                   gotRef, view, fetches, issued, published, calls, edits,
                   lastSet, lastEdit, completion>>

\* the image of tile t loaded: the callback gets (null, tile),
\* tile.complete holds, _applyClip draws and calls done(null, canvas)
TileLoadAt(t) ==
    /\ tiles[t].st = "requested"
    /\ tiles' = [tiles EXCEPT ![t] =
                    [st |-> "masked",
                     canvas |-> applyClip(t, Ring, invertClip),
                     ring |-> Ring,
                     under |-> <<>>,
                     changed |-> (@.under # Ring),
                     done |-> Append(@.done, "ok")]]
    /\ UNCHANGED <<normVars, kind, heap, thisBoundary, invertClip, map, callerRef,
                   gotRef, view, fetches, issued, published, calls, edits,
                   lastSet, lastEdit, completion>>

TileLoad == \E t \in TileAddrs : TileLoadAt(t)

\* mutant of TileErrorAt: the failure is not reported to done
TileErrorAtSilent(t) ==
    /\ tiles[t].st = "requested"
    /\ tiles' = [tiles EXCEPT ![t] = [@ EXCEPT !.st = "failed", !.under = <<>>]]
    /\ UNCHANGED <<normVars, kind, heap, thisBoundary, invertClip, map, callerRef,
                   gotRef, view, fetches, issued, published, calls, edits,
                   lastSet, lastEdit, completion>>

\* the image of tile t failed to load: the callback gets err and calls
\* done(err)
TileErrorAt(t) ==
    /\ tiles[t].st = "requested"
    /\ tiles' = [tiles EXCEPT ![t] =
                    [@ EXCEPT !.st = "failed", !.under = <<>>, !.done = Append(@, "err")]]
    /\ UNCHANGED <<normVars, kind, heap, thisBoundary, invertClip, map, callerRef,
                   gotRef, view, fetches, issued, published, calls, edits,
                   lastSet, lastEdit, completion>>

TileError == \E t \in TileAddrs : TileErrorAt(t)

Next ==
    \/ SetBoundaryNewArray
    \/ SetBoundarySameArray
    \/ SetBoundaryObject
    \/ GetBoundary
    \/ EditArgument
    \/ EditReturned
    \/ OnAdd
    \/ OnRemove
    \/ MoveEnd
    \/ ZoomEnd
    \/ Resize
    \/ ImageLoad
    \/ ImageError
    \/ CreateTile
    \/ TileLoad
    \/ TileError

Spec == Init /\ [][Next]_vars

\* The tile layer alone
TileInit == Init /\ kind = "tile"

TileNext ==
    \/ SetBoundaryNewArray
    \/ SetBoundarySameArray
    \/ SetBoundaryObject
    \/ GetBoundary
    \/ EditArgument
    \/ EditReturned
    \/ OnAdd
    \/ OnRemove
    \/ CreateTile
    \/ TileLoad
    \/ TileError

SpecTile == TileInit /\ [][TileNext]_vars

\* The tile layer, its boundary replaced by setBoundary only, when the
\* image of every requested tile loads or fails in the end
TileFairNext ==
    \/ SetBoundaryNewArray
    \/ SetBoundaryObject
    \/ OnAdd
    \/ OnRemove
    \/ CreateTile
    \/ TileLoad
    \/ TileError

SpecTileFair ==
    /\ TileInit
    /\ [][TileFairNext]_vars
    /\ \A t \in TileAddrs : WF_vars(TileLoadAt(t) \/ TileErrorAt(t))

\* The image overlay alone
OverlayInit == Init /\ kind = "overlay"

OverlayNext ==
    \/ SetBoundaryNewArray
    \/ SetBoundarySameArray
    \/ SetBoundaryObject
    \/ GetBoundary
    \/ EditArgument
    \/ EditReturned
    \/ OnAdd
    \/ OnRemove
    \/ MoveEnd
    \/ ZoomEnd
    \/ Resize
    \/ ImageLoad
    \/ ImageError

SpecOverlay == OverlayInit /\ [][OverlayNext]_vars

\* an overlay that is added to and removed from a map whose view changes
\* also while the overlay is not on it
AttachNext ==
    \/ SetBoundaryNewArray
    \/ SetBoundaryObject
    \/ OnAdd
    \/ OnRemove
    \/ MoveEnd
    \/ ZoomEnd
    \/ Resize
    \/ ViewChangeOffMap
    \/ ImageLoad
    \/ ImageError

SpecAttach == OverlayInit /\ [][AttachNext]_vars

\* a layer of either class and its setBoundary calls, with every kind of
\* argument, on and off a map; no image loads
CallsNext ==
    \/ SetBoundaryNewArray
    \/ SetBoundaryObject
    \/ SetBoundaryOddArray
    \/ SetBoundaryOddObject
    \/ OnAdd
    \/ OnRemove

SpecCalls == Init /\ [][CallsNext]_vars

----------------------------------------------------------------------------
(* Claims about normalisation and construction, checked under SpecNorm *)

Returned == phase = "returned"

AllPairs(ring) == \A i \in 1..Len(ring) : ring[i].t = "pair"

\* the shapes the specification accepts
AcceptedShape(a) ==
    \/ a.kind = "array" /\ Len(a.elems) > 0 /\ AllPairs(a.elems)
    \/ a.kind \in {"bounds", "polygon"}
    \/ a.kind = "object" /\ HasProp(a, "type")
         /\ a.type \in {"Polygon", "MultiPolygon", "Feature"}

\* C2: normalize fails with UnsupportedBoundaryFormat for every input that
\* is not one of the accepted shapes (the empty array, a bare object, an
\* array with an element that is no numeric pair), and then the factory
\* returns no handle.
C2_UnsupportedShapesFail ==
    (Returned /\ ~AcceptedShape(arg)) =>
        (thrown = "UnsupportedBoundaryFormat" /\ handle = "none")

VertexSet(ring) == {ring[i] : i \in 1..Len(ring)}

\* the probe points: every 5 degrees, from 5 below to 5 above the grid
ProbeVals == {5 * k - 5 : k \in 0..(2 * MaxGrid + 2)}

Probes == [lat : ProbeVals, lng : ProbeVals]

\* p lies on an edge of the rectangle q
OnEdge(p, q) ==
    \/ p.lat \in {q.s, q.n} /\ q.w <= p.lng /\ p.lng <= q.e
    \/ p.lng \in {q.w, q.e} /\ q.s <= p.lat /\ p.lat <= q.n

RectFormats == {"array", "openArray", "bounds", "polygon", "Polygon", "MultiPolygon"}

\* the rectangle q, walked as w, in format f
AsFormat(q, w, f) ==
    CASE f = "array" -> JsArray(Close(w))
      [] f = "openArray" -> JsArray(w)
      [] f = "bounds" -> LatLngBounds(q)
      [] f = "polygon" -> LPolygon(w)
      [] f = "Polygon" -> GeoPolygon(<<LinearRing(Close(w))>>)
      [] f = "MultiPolygon" -> GeoMultiPolygon(<< <<LinearRing(Close(w))>> >>)

\* a and b are the same value (values of different kinds are never compared)
SameArg(a, b) ==
    /\ a.kind = b.kind
    /\ HasProp(a, "type") = HasProp(b, "type")
    /\ HasProp(a, "type") => a.type = b.type
    /\ a = b

\* the format a is in, "other" when it is none of RectFormats
FormatOf(a) ==
    CASE a.kind = "array" /\ Len(a.elems) = 5 -> "array"
      [] a.kind = "array" /\ Len(a.elems) = 4 -> "openArray"
      [] a.kind = "bounds" -> "bounds"
      [] a.kind = "polygon" -> "polygon"
      [] TypeIs(a, "Polygon") -> "Polygon"
      [] TypeIs(a, "MultiPolygon") -> "MultiPolygon"
      [] OTHER -> "other"

\* a is the rectangle q in one of RectFormats, walked in some way
DescribesQuad(a, q) ==
    /\ FormatOf(a) \in RectFormats
    /\ \E w \in Walks(q) : SameArg(a, AsFormat(q, w, FormatOf(a)))

\* the ring normalize returns for the closed array of q's corners
ReferenceRing(q) == normalizeBoundary(JsArray(Close(Corners(q)))).ring

\* C5: for the accepted formats describing the same quadrilateral,
\* normalize gives rings with the same vertex set, and the point-in-polygon
\* test answers alike on all of them for every probe point not on an edge.
\* (Every format and every walk of q is compared with the ring of one of
\* them, the closed array of corners; so any two of them agree.)
C5_FormatsAgree ==
    \A q \in Quads :
        (Returned /\ DescribesQuad(arg, q)) =>
            /\ handle # "none"
            /\ VertexSet(stored) = VertexSet(ReferenceRing(q))
            /\ \A p \in Probes :
                  ~OnEdge(p, q) =>
                     (pointInBoundary(p, stored) = pointInBoundary(p, ReferenceRing(q)))

\* C5's case: an L.Polygon was normalised to a ring that is not the ring of
\* the same rectangle's bounds object, and a probe point lies inside it
C5_Witness ==
    /\ Returned
    /\ arg.kind = "polygon"
    /\ \E q \in Quads :
          /\ DescribesQuad(arg, q)
          /\ stored # normalizeBoundary(LatLngBounds(q)).ring
          /\ \E p \in Probes : ~OnEdge(p, q) /\ pointInBoundary(p, stored)

\* C6: for a bounds object with south-west corner (s, w) and north-east
\* corner (n, e), normalize returns the ring SW (s, w), SE (s, e),
\* NE (n, e), NW (n, w), SW (s, w).
C6_BoundsRingOrder ==
    (Returned /\ arg.kind = "bounds") =>
        LET s == arg.sw.lat
            w == arg.sw.lng
            n == arg.ne.lat
            e == arg.ne.lng
        IN  stored = <<Pair(s, w), Pair(s, e), Pair(n, e), Pair(n, w), Pair(s, w)>>

\* the vertices of every feature of a FeatureCollection
FeatureVertices(fc) ==
    UNION {VertexSet(SwapAll(fc.features[i].geometry.coordinates[1])) :
             i \in 1..Len(fc.features)}

\* C7: a GeoJSON FeatureCollection passed to L.tileLayer.wms.clipped is
\* accepted, and all of its features are merged into the clipping boundary.
C7_FeatureCollectionMerged ==
    (Returned /\ called = "tile" /\ TypeIs(arg, "FeatureCollection")) =>
        /\ thrown = "none"
        /\ handle = "tile"
        /\ FeatureVertices(arg) \subseteq VertexSet(stored)

\* C8: after construction, for every accepted input format, the stored ring
\* is a sequence of (lat, lng) pairs, closed (first point = last point), with
\* at least 3 distinct vertices.
C8_StoredRingClosed ==
    (Returned /\ handle # "none") =>
        /\ AllPairs(stored)
        /\ Len(stored) > 0
        /\ stored[1] = stored[Len(stored)]
        /\ Cardinality(VertexSet(stored)) >= 3

\* ring is the GeoJSON linear ring `coords` with every [lng, lat] turned
\* into [lat, lng]
IsSwapOf(ring, coords) ==
    /\ Len(ring) = Len(coords)
    /\ \A i \in 1..Len(coords) :
          /\ ring[i].t = "pair"
          /\ ring[i].lat = coords[i][2]
          /\ ring[i].lng = coords[i][1]

\* what C10 says of a geometry g: the first ring (of the first polygon)
GeometryRule(g) ==
    IF TypeIs(g, "Polygon") /\ HasProp(g, "coordinates") /\ Len(g.coordinates) > 0
    THEN handle # "none" /\ IsSwapOf(stored, g.coordinates[1])
    ELSE IF TypeIs(g, "MultiPolygon") /\ HasProp(g, "coordinates")
            /\ Len(g.coordinates) > 0
    THEN handle # "none" /\ IsSwapOf(stored, g.coordinates[1][1])
    ELSE TRUE

\* C10: a GeoJSON Polygon gives its first ring with every [lng, lat] swapped
\* to [lat, lng]; a MultiPolygon the first ring of its first polygon only,
\* whatever the later polygons; a Feature what its geometry gives.
C10_GeoJsonFirstRing ==
    Returned =>
        IF TypeIs(arg, "Feature") /\ HasProp(arg, "geometry")
        THEN /\ GeometryRule(arg.geometry)
             /\ TypeIs(arg.geometry, "Point") => thrown = "UnsupportedBoundaryFormat"
        ELSE GeometryRule(arg)

\* C10's case: a Feature holding a MultiPolygon of several polygons, whose
\* first polygon has two rings, was normalised
C10_Witness ==
    /\ Returned
    /\ TypeIs(arg, "Feature")
    /\ HasProp(arg, "geometry")
    /\ TypeIs(arg.geometry, "MultiPolygon")
    /\ Len(arg.geometry.coordinates) > 1
    /\ Len(arg.geometry.coordinates[1]) > 1
    /\ Len(stored) = 5
    /\ stored[1].lat # stored[1].lng

----------------------------------------------------------------------------
(* Claims about a constructed layer (specification Spec) *)

\* the pixels of a tile whose centre lies outside the ring, projected
\* into the tile
OutsideOnTile(coords, ring) ==
    LET tileSize == getTileSize
        path == [k \in 1..Len(ring) |-> projectToTilePixels(ring[k], coords, tileSize)]
    IN  {px \in PixelsOf(tileSize) :
            ~InsidePath(PixelCentre(tileCoordsToBounds(coords), px), path)}

\* the pixels of a viewport image whose centre lies outside the ring,
\* projected into the container of the map view v
OutsideOnViewport(v, size, ring) ==
    LET path == [k \in 1..Len(ring) |-> latLngToContainerPoint(v, ring[k])]
    IN  {px \in PixelsOf(size) : ~InsidePath(PixelCentre(v.box, px), path)}

\* C1: with invertClip = true, the pixels of a finished tile and of a
\* finished viewport image that show the fetched image are exactly those
\* outside the projected boundary ring.
C1_InvertedShowsOutside ==
    invertClip =>
        /\ \A t \in TileAddrs :
              tiles[t].st = "masked" => tiles[t].canvas = OutsideOnTile(t, tiles[t].ring)
        /\ published.image # 0 =>
              published.pixels = OutsideOnViewport(published.drawnFor, published.size,
                                                   published.ring)

\* C3: changing in place the array that getBoundary() returned (a vertex
\* replaced, added or removed) leaves the ring that later renders and later
\* getBoundary() calls use as it was.
C3_ReturnedRingIsSnapshot ==
    [][(edits' = edits + 1 /\ lastEdit' = "returned") => Ring' = Ring]_vars

\* C4: setBoundary(b) with a supported b, on the tile layer and on the
\* overlay alike, stores normalizeBoundary(b), then calls redraw() (tile
\* layer) or _update() (overlay; one viewport fetch when on a map) exactly
\* once, with the new ring already stored, and returns the layer itself.
C4_SetBoundaryStoresThenRedraws ==
    [][(calls' = calls + 1 /\ normalizeBoundary(lastSet'.arg).err = "none") =>
          /\ Ring' = normalizeBoundary(lastSet'.arg).ring
          /\ lastSet'.saw = Ring'
          /\ lastSet'.requests = 1
          /\ lastSet'.result = "this"
          /\ (kind = "overlay" /\ map) =>
                /\ issued' = issued + 1
                /\ \E f \in fetches' \ fetches : f.bounds = view.box /\ f.size = view.size
          /\ (kind = "tile" \/ ~map) => (issued' = issued /\ fetches' = fetches)]_vars

\* C4's case: on an overlay that is on a map, setBoundary was called with a
\* bounds object when another ring was stored, and the rectangle's ring is
\* the stored one
C4_Witness ==
    /\ kind = "overlay"
    /\ map
    /\ calls = 1
    /\ lastSet.result = "this"
    /\ lastSet.arg.kind = "bounds"
    /\ lastSet.saw = Ring
    /\ Len(heap) = 2
    /\ heap[1] # Ring
    /\ issued = 2

\* C9: changing in place the array that was passed as boundary, to the
\* constructor or to setBoundary, leaves the ring that renders and
\* getBoundary() use as it was at that call.
C9_StoredRingOwned ==
    [][(edits' = edits + 1 /\ lastEdit' = "argument") => Ring' = Ring]_vars

----------------------------------------------------------------------------
(* Claims about the geometry helpers (specification SpecGeom) *)

\* the point lies outside the axis-aligned bounds of the polygon: left of,
\* right of, below or above all its vertices
OutsideBounds(point, polygon) ==
    LET xs == {polygon[i].x : i \in 1..Len(polygon)}
        ys == {polygon[i].y : i \in 1..Len(polygon)}
    IN  \/ point.x < Min(xs) \/ point.x > Max(xs)
        \/ point.y < Min(ys) \/ point.y > Max(ys)

\* the polygon is convex: it turns the same way, and does turn, at every
\* vertex
IsConvex(polygon) ==
    LET q == OpenRing(polygon)
        n == Len(q)
        at(i) == q[((i - 1) % n) + 1]
        turn(i) == (at(i + 1).x - at(i).x) * (at(i + 2).y - at(i + 1).y)
                   - (at(i + 1).y - at(i).y) * (at(i + 2).x - at(i + 1).x)
    IN  /\ n >= 3
        /\ \/ \A i \in 1..n : turn(i) > 0
           \/ \A i \in 1..n : turn(i) < 0

\* C15: pointInPolygon returns false for every point outside the polygon's
\* axis-aligned bounds, on any side, and true for the centroid of every
\* convex polygon; _pointInBoundary likewise for places outside the ring's
\* bounds.
C15_OutsideBoundsAndCentroid ==
    /\ (phase = "returned" /\ called = "pointInPolygon") =>
          /\ OutsideBounds(arg.point, arg.polygon) => result = FALSE
          /\ (IsConvex(arg.polygon) /\ arg.point = Centroid(arg.polygon)) => result = TRUE
    /\ (phase = "returned" /\ called = "pointInBoundary") =>
          (~BoundsContains(getBoundaryBounds(arg.ring), arg.latlng) => result = FALSE)

\* places on a 15 degree grid, to sample the inside of tiles
SamplePlaces == [lat : {15 * k - 75 : k \in 0..10}, lng : {15 * k - 180 : k \in 0..24}]

\* some corner of the tile lies inside the ring
CornerInsideRing(tb, ring) ==
    \E lat \in {tb.s, tb.n}, lng \in {tb.w, tb.e} :
        pointInBoundary([lat |-> lat, lng |-> lng], ring)

\* some vertex of the ring lies inside the tile's bounds
VertexInsideTile(tb, ring) ==
    \E j \in 1..Len(ring) :
        /\ tb.s <= ring[j].lat /\ ring[j].lat <= tb.n
        /\ tb.w <= ring[j].lng /\ ring[j].lng <= tb.e

\* the tile's bounds and the ring's axis-aligned bounds have a place in
\* common
BoundsOverlap(tb, ring) ==
    LET lats == {ring[j].lat : j \in 1..Len(ring)}
        lngs == {ring[j].lng : j \in 1..Len(ring)}
    IN  /\ Max({tb.s, Min(lats)}) <= Min({tb.n, Max(lats)})
        /\ Max({tb.w, Min(lngs)}) <= Min({tb.e, Max(lngs)})

\* C18: _tileIntersectsBoundary is true exactly when a tile corner lies
\* inside the ring, or a ring vertex lies inside the tile's bounds, or the
\* tile's bounds overlap the ring's bounds; it is never false for a tile
\* with a place inside the ring.
C18_TileIntersectsConservative ==
    (phase = "returned" /\ called = "tileIntersectsBoundary") =>
        LET tb == tileCoordsToBounds(arg.coords)
        IN  /\ result = (\/ CornerInsideRing(tb, arg.ring)
                         \/ VertexInsideTile(tb, arg.ring)
                         \/ BoundsOverlap(tb, arg.ring))
            /\ (\E p \in SamplePlaces :
                    BoundsContains(tb, p) /\ pointInBoundary(p, arg.ring)) => result = TRUE

\* C18's case: the ring crosses the tile, with no tile corner inside the
\* ring and no ring vertex inside the tile
C18_Witness ==
    /\ phase = "returned"
    /\ called = "tileIntersectsBoundary"
    /\ result = TRUE
    /\ ~CornerInsideRing(tileCoordsToBounds(arg.coords), arg.ring)
    /\ ~VertexInsideTile(tileCoordsToBounds(arg.coords), arg.ring)
    /\ \E p \in SamplePlaces :
          /\ BoundsContains(tileCoordsToBounds(arg.coords), p)
          /\ pointInBoundary(p, arg.ring)

C16_ClippedByRingAtCompletion ==
    [][/\ \A t \in TileAddrs :
            (tiles[t].st = "requested" /\ tiles'[t].st = "masked") =>
                /\ tiles'[t].ring = Ring
                /\ tiles'[t].canvas = applyClip(t, Ring, invertClip)
       /\ published' # published =>
            /\ published'.ring = Ring
            /\ published'.pixels =
                  applyClipToImage(Ring, invertClip, published'.size, view)]_vars

\* C16's case: a tile was requested under the ring of the construction,
\* setBoundary stored another ring before its image loaded, and the tile
\* shows the mask of the new ring, which the old ring would not have given
C16_Witness ==
    /\ calls = 1
    /\ edits = 0
    /\ lastSet.result = "this"
    /\ \E t \in TileAddrs :
          /\ tiles[t].st = "masked"
          /\ tiles[t].changed
          /\ tiles[t].ring = lastSet.saw
          /\ tiles[t].canvas = applyClip(t, lastSet.saw, invertClip)
          /\ tiles[t].canvas # applyClip(t, heap[1], invertClip)

----------------------------------------------------------------------------
(* Claims about tiles (specifications SpecTile and SpecTileFair) *)

\* C11: when the image of a tile fails to load, done is called with the
\* error, the layer requests nothing again for the tile, the stored ring
\* and the mode stay as they are, and later createTile and setBoundary
\* calls are served as before.
C11_TileFailureIsLocal ==
    /\ [][\A t \in TileAddrs :
            (tiles[t].st = "requested" /\ tiles'[t].st # "requested"
             /\ tiles'[t].st # "masked") =>
                /\ tiles'[t].st = "failed"
                /\ tiles'[t].done = <<"err">>
                /\ Ring' = Ring
                /\ invertClip' = invertClip
                /\ \A u \in TileAddrs \ {t} : tiles'[u] = tiles[u]]_vars
    /\ [](\A t \in TileAddrs :
            tiles[t].st = "failed" =>
                /\ tiles[t].done = <<"err">>
                /\ map => ENABLED CreateTile
                /\ (calls < MaxCalls /\ calls + edits < MaxOps) =>
                      ENABLED SetBoundaryObject)

\* C11's case: a tile failed, and afterwards setBoundary was called and
\* the other tile was requested and masked with the new ring
C11_Witness ==
    \E t, u \in TileAddrs :
        /\ tiles[t].st = "failed"
        /\ tiles[t].done = <<"err">>
        /\ tiles[u].st = "masked"
        /\ calls = 1
        /\ lastSet.result = "this"
        /\ tiles[u].ring = lastSet.saw
        /\ ~tiles[u].changed
        /\ heap[1] # lastSet.saw

\* the pixels of a tile whose centre lies inside the ring, projected
\* into the tile
InsideOnTile(coords, ring) == PixelsOf(getTileSize) \ OutsideOnTile(coords, ring)

\* the tile lies fully inside the ring: its corners and the centres of
\* all its pixels
FullyInside(coords, ring) ==
    /\ \A lat \in {tileCoordsToBounds(coords).s, tileCoordsToBounds(coords).n},
          lng \in {tileCoordsToBounds(coords).w, tileCoordsToBounds(coords).e} :
            pointInBoundary([lat |-> lat, lng |-> lng], ring)
    /\ InsideOnTile(coords, ring) = PixelsOf(getTileSize)

\* C13: with invertClip = false a finished tile shows the image exactly on
\* the pixels inside the projected ring; a tile fully inside the ring
\* intersects it and shows the whole image; a tile that does not intersect
\* the ring is delivered by done(null, canvas) with nothing drawn.
C13_TileShowsInside ==
    ~invertClip =>
        \A t \in TileAddrs :
            tiles[t].st = "masked" =>
                /\ tiles[t].done = <<"ok">>
                /\ tiles[t].canvas = InsideOnTile(t, tiles[t].ring)
                /\ FullyInside(t, tiles[t].ring) =>
                      /\ tileIntersectsBoundary(t, tiles[t].ring)
                      /\ tiles[t].canvas = PixelsOf(getTileSize)
                /\ ~tileIntersectsBoundary(t, tiles[t].ring) => tiles[t].canvas = {}

\* C13's case: one tile was finished when it lay fully inside the ring,
\* the other when it did not intersect the ring
C13_Witness ==
    /\ ~invertClip
    /\ \E t, u \in TileAddrs :
          /\ tiles[t].st = "masked"
          /\ FullyInside(t, tiles[t].ring)
          /\ tiles[t].canvas = PixelsOf(getTileSize)
          /\ tiles[u].st = "masked"
          /\ ~tileIntersectsBoundary(u, tiles[u].ring)
          /\ tiles[u].canvas = {}
          /\ tiles[u].done = <<"ok">>

----------------------------------------------------------------------------
(* Claims about the overlay (specification SpecOverlay) *)

\* C12: in every state between callbacks the overlay's published image is
\* the one that was requested for exactly the published bounds (the BBOX
\* of its request is west, south, east, north of the published bounds).
C12_ImageAndBoundsTogether ==
    published.image # 0 =>
        published.url.BBOX = <<published.bounds.w, published.bounds.s,
                               published.bounds.e, published.bounds.n>>

\* C12's case: after a later image, an earlier one was published, when
\* the map had moved on from the bounds it was requested for
C12_Witness ==
    /\ published.image # 0
    /\ published.replaced > published.image
    /\ published.drawnFor.box # published.bounds
    /\ view.box # published.bounds

\* C19: while the overlay is on a map, each moveend, zoomend and resize
\* notification and each setBoundary call that returns (and onAdd itself)
\* issues exactly one viewport fetch, for the bounds and the size that the
\* map has at that moment.
C19_OneFetchPerTrigger ==
    [][(/\ kind = "overlay"
        /\ \/ map /\ view' # view
           \/ map /\ calls' = calls + 1 /\ lastSet'.result = "this"
           \/ ~map /\ map')
       => /\ issued' = issued + 1
          /\ fetches \subseteq fetches'
          /\ Cardinality(fetches' \ fetches) = 1
          /\ \A f \in fetches' \ fetches :
                /\ f.id = issued'
                /\ f.bounds = view'.box
                /\ f.size = view'.size
                /\ f.url = WmsUrl(view'.box, view'.size)]_vars

\* C19's case: after the fetch of onAdd the container was resized, and the
\* second fetch asks for the new bounds and the new size
C19_Witness ==
    /\ kind = "overlay"
    /\ map
    /\ issued = 2
    /\ calls = 0
    /\ view.size # FirstView.size
    /\ \E f \in fetches :
          /\ f.id = 2
          /\ f.bounds = view.box
          /\ f.size = view.size
          /\ f.url.WIDTH = view.size.x

\* C20: a viewport fetch leaves the fetches in flight only by its own
\* completion; every image that loads while the overlay is on the map is
\* published, with its bounds, in the order of completion, whatever image
\* is published then (also one issued later), and stays published until
\* another fetch completes.
C20_PublishedInCompletionOrder ==
    [][/\ fetches \ fetches' # {} =>
            \E f \in fetches \ fetches' :
                /\ fetches' = fetches \ {f}
                /\ completion'.image = f.id
                /\ (map /\ completion'.outcome # "error") =>
                      completion'.outcome = "published"
                /\ completion'.outcome = "published" =>
                      /\ published'.image = f.id
                      /\ published'.bounds = f.bounds
                      /\ published'.replaced = published.image
                /\ completion'.outcome # "published" => published' = published
       /\ fetches \subseteq fetches' =>
            /\ completion' = completion
            /\ published' = published]_vars

\* C20's case: the fetch issued first completed after the one issued
\* second; its image replaced the later one and is the published one, and
\* no fetch is in flight
C20_Witness ==
    /\ issued = 2
    /\ fetches = {}
    /\ published.image = 1
    /\ published.replaced = 2
    /\ completion = [image |-> 1, outcome |-> "published"]
    /\ published.bounds # view.box

\* C23: the mask clipped into a published viewport image is positioned for
\* the viewport the image was requested for: also when the map view
\* changed between the issue of the fetch and its completion, the pixels
\* shown are those inside the ring projected for the bounds and size that
\* are published with the image, not for the view current at completion.
C23_MaskPositionedForRequest ==
    published.image # 0 =>
        published.pixels =
            applyClipToImage(published.ring, invertClip, published.size,
                             [box |-> published.bounds, size |-> published.size])

\* C24: if the overlay is removed from the map while a viewport fetch is
\* in flight, the later completion of that fetch (load or error) neither
\* changes the overlay's published image and bounds nor raises an error in
\* the completion callback.
C24_CompletionAfterRemoveIsSilent ==
    [][(~map /\ completion' # completion) =>
          /\ published' = published
          /\ completion'.outcome # "threw"]_vars

----------------------------------------------------------------------------
(* Claims about the overlay on and off a map (specification SpecAttach) *)

\* C25: the overlay issues a viewport fetch only while it is attached to
\* a map: a step that issues a fetch ends with the overlay on the map;
\* setBoundary off the map (before onAdd or after onRemove) stores the
\* ring and issues no fetch; a view change of the map off which the
\* overlay is issues none.
C25_FetchOnlyWhileAttached ==
    [][/\ (issued' # issued \/ ~(fetches' \subseteq fetches)) => map'
       /\ (~map /\ calls' = calls + 1 /\ lastSet'.result = "this") =>
              /\ Ring' = normalizeBoundary(lastSet'.arg).ring
              /\ issued' = issued
              /\ fetches' = fetches
       /\ (~map /\ view' # view) => (issued' = issued /\ fetches' = fetches)]_vars

\* C25's case: the overlay was added (fetch 1 was issued) and removed;
\* since fetch 1 was issued, setBoundary has stored another ring and the
\* map's view has changed, and no second fetch was issued
C25_Witness ==
    /\ kind = "overlay"
    /\ ~map
    /\ issued = 1
    /\ calls = 1
    /\ lastSet.result = "this"
    /\ lastSet.saw = Ring
    /\ \E f \in fetches : f.id = 1 /\ f.under # Ring /\ f.bounds # view.box

----------------------------------------------------------------------------
(* Claims about setBoundary calls (specification SpecCalls) *)

\* C22: setBoundary called with an unsupported boundary fails with the
\* UnsupportedBoundaryFormat error and has no other effect: the stored
\* ring is the one from before the call, no redraw is requested on the
\* tile layer and no viewport fetch is issued by the overlay.
C22_UnsupportedSetBoundaryHasNoEffect ==
    [][(calls' = calls + 1 /\ ~AcceptedShape(lastSet'.arg)) =>
          /\ lastSet'.result = "threw"
          /\ normalizeBoundary(lastSet'.arg).err = "UnsupportedBoundaryFormat"
          /\ thisBoundary' = thisBoundary
          /\ Ring' = Ring
          /\ lastSet'.requests = 0
          /\ fetches' = fetches
          /\ issued' = issued]_vars

----------------------------------------------------------------------------
(* Claims about the geometry helpers on Numbers (specification SpecNum) *)

Abs(v) == IF v < 0 THEN -v ELSE v

\* the distance dist is more than the rounding of a crossing can reach,
\* for an edge whose ends have an x of at most reach in size: more than
\* 2^(4 - Precision) times reach
BeyondRounding(dist, reach) == dist * 2^(Precision - 4) > reach

\* the probe is not boundary-touching: from every edge that straddles its
\* y, its x is further than the rounding of the crossing can reach.  The
\* distance to the exact crossing is |off| / |d|.
ClearOfEdges(point, polygon) ==
    \A i \in 1..Len(polygon) :
        LET j == IF i = 1 THEN Len(polygon) ELSE i - 1
            xi == polygon[i].x
            yi == polygon[i].y
            xj == polygon[j].x
            yj == polygon[j].y
            d == yj - yi
            off == (point.x - xi) * d - (xj - xi) * (point.y - yi)
        IN  ((yi > point.y) # (yj > point.y)) =>
                BeyondRounding(Abs(off), Max({Abs(xi), Abs(xj)}) * Abs(d))

\* C21: pointInPolygon is winding-order-agnostic: for every polygon and
\* every probe point, the result on the polygon's vertex sequence equals
\* the result on the reversed vertex sequence.
C21_WindingOrderAgnostic ==
    (phase = "returned" /\ called = "pointInPolygon") =>
        result = pointInPolygonNum(arg.point, Reverse(arg.polygon))

\* C21, amended: for every polygon and every probe point that is not
\* boundary-touching (further from every edge that straddles its y than
\* the rounding of the crossing can reach), the result on the polygon's
\* vertex sequence equals the result on the reversed vertex sequence.
C21_WindingOrderAgnosticOffEdges ==
    (phase = "returned" /\ called = "pointInPolygon"
        /\ ClearOfEdges(arg.point, arg.polygon)) =>
        result = pointInPolygonNum(arg.point, Reverse(arg.polygon))

\* C21's case: a probe that is no whole number, inside the polygon and
\* clear of its edges, one of which slants across the probe's parallel
C21_Witness ==
    /\ phase = "returned"
    /\ called = "pointInPolygon"
    /\ arg.point.x % Scale # 0
    /\ ClearOfEdges(arg.point, arg.polygon)
    /\ result = TRUE
    /\ \E i \in 2..Len(arg.polygon) :
          /\ (arg.polygon[i].y > arg.point.y) # (arg.polygon[i - 1].y > arg.point.y)
          /\ arg.polygon[i].x # arg.polygon[i - 1].x

\* the point is far outside the axis-aligned bounds of the polygon: above
\* or below them, or beside them by more than the rounding of a crossing
\* can reach
FarOutsideBounds(point, polygon) ==
    LET xs == {polygon[i].x : i \in 1..Len(polygon)}
        ys == {polygon[i].y : i \in 1..Len(polygon)}
        reach == Max({Abs(v) : v \in xs})
    IN  \/ point.y < Min(ys) \/ point.y > Max(ys)
        \/ BeyondRounding(Min(xs) - point.x, reach)
        \/ BeyondRounding(point.x - Max(xs), reach)

\* C15, amended: pointInPolygon returns false for every point far outside
\* the polygon's axis-aligned bounds (above or below them, or beside them
\* by more than the rounding of a crossing), and true for the centroid of
\* every convex polygon that is not boundary-touching.
C15_FarOutsideAndCentroid ==
    (phase = "returned" /\ called = "pointInPolygon") =>
        /\ FarOutsideBounds(arg.point, arg.polygon) => result = FALSE
        /\ (/\ IsConvex(arg.polygon)
            /\ arg.point = NumCentroid(arg.polygon)
            /\ ClearOfEdges(arg.point, arg.polygon)) => result = TRUE

\* C15's case: a point west of all the vertices, far enough, on a
\* parallel that two edges of the polygon cross
C15_Witness ==
    /\ phase = "returned"
    /\ called = "pointInPolygon"
    /\ FarOutsideBounds(arg.point, arg.polygon)
    /\ \A i \in 1..Len(arg.polygon) : arg.point.x < arg.polygon[i].x
    /\ \E i \in 2..Len(arg.polygon) :
          (arg.polygon[i].y > arg.point.y) # (arg.polygon[i - 1].y > arg.point.y)
    /\ result = FALSE

\* some corner of the tile lies inside the ring, as _pointInBoundary
\* computes it
CornerInsideRingNum(tb, ring) ==
    \E lat \in {tb.s, tb.n}, lng \in {tb.w, tb.e} :
        pointInBoundaryNum([lat |-> lat, lng |-> lng], ring)

\* every corner of the tile lies within the ring's axis-aligned bounds or
\* far outside them
CornersClearOfBounds(tb, ring) ==
    LET bb == getBoundaryBounds(ring)
        reach == Max({Abs(ring[j].lng) : j \in 1..Len(ring)})
    IN  \A lat \in {tb.s, tb.n}, lng \in {tb.w, tb.e} :
            \/ BoundsContains(bb, [lat |-> lat, lng |-> lng])
            \/ lat < bb.s \/ lat > bb.n
            \/ BeyondRounding(bb.w - lng, reach)
            \/ BeyondRounding(lng - bb.e, reach)

\* C26: for every non-empty ring and every tile, _tileIntersectsBoundary
\* returns the same value as the single test "the tile's bounds overlap
\* the ring's axis-aligned bounds": whenever the corner-inside-ring check
\* or the vertex-inside-tile check succeeds, the bounds overlap too.
C26_SameAsBoundsOverlap ==
    (phase = "returned" /\ called = "tileIntersectsBoundary") =>
        LET tb == tileCoordsToBoundsNum(arg.coords)
        IN  /\ result = BoundsOverlap(tb, arg.ring)
            /\ (CornerInsideRingNum(tb, arg.ring) \/ VertexInsideTile(tb, arg.ring)) =>
                   BoundsOverlap(tb, arg.ring)

\* C26, amended: the same, for every non-empty ring and every tile none
\* of whose corners lies beside the ring's axis-aligned bounds within the
\* rounding of a crossing.
C26_SameAsBoundsOverlapOffEdges ==
    (phase = "returned" /\ called = "tileIntersectsBoundary"
        /\ CornersClearOfBounds(tileCoordsToBoundsNum(arg.coords), arg.ring)) =>
        LET tb == tileCoordsToBoundsNum(arg.coords)
        IN  /\ result = BoundsOverlap(tb, arg.ring)
            /\ (CornerInsideRingNum(tb, arg.ring) \/ VertexInsideTile(tb, arg.ring)) =>
                   BoundsOverlap(tb, arg.ring)

\* C26's case: a corner of the tile is inside the ring, and no corner is
\* within rounding of the ring's bounds
C26_Witness ==
    /\ phase = "returned"
    /\ called = "tileIntersectsBoundary"
    /\ CornersClearOfBounds(tileCoordsToBoundsNum(arg.coords), arg.ring)
    /\ CornerInsideRingNum(tileCoordsToBoundsNum(arg.coords), arg.ring)
    /\ result = TRUE

====
